---- MODULE Spec2Model ----
(***************************************************************************)
(* A model of the HIBP breach chain API (src/lib.js): one handle holding   *)
(* two array references, this._breaches and this._origBreaches, and the    *)
(* chain methods that filter, project, sort, reset and return them.        *)
(*                                                                         *)
(* JavaScript arrays are objects: the model keeps a heap of arrays and the *)
(* handle's fields are references into it, so that an in-place operation   *)
(* (Array.prototype.sort) is seen through every reference to its array.    *)
(* Breach objects are never written by the library (pluck builds new       *)
(* objects), so a breach is modelled by its value.                         *)
(***************************************************************************)
EXTENDS Integers, Sequences, FiniteSets, TLC

VARIABLES
    heap,           \* array reference -> contents, or Free
    _breaches,      \* this._breaches: a reference, or NoRef while unset
    _origBreaches,  \* this._origBreaches: a reference, or NoRef while unset
    thrown,         \* what the last call raised ("none" when it returned)
    ret,            \* the caller's variable holding what breaches() returned
    held,           \* calls made since, with the caller still holding `ret`
    observe,        \* which observer's bookkeeping is kept
    loaded,         \* observer: the sequence stored by the last successful load
    retSnap,        \* observer: contents of the returned array when returned
    last,           \* observer: the last call and its arguments
    base,           \* observer: the working set the current run of filter calls began on
    kept            \* observer: the positions of `base` every call of the run accepts

vars == <<heap, _breaches, _origBreaches, thrown, ret, held, observe, loaded,
          retSnap, last, base, kept>>

----------------------------------------------------------------------------
(* Bounds of the model.                                                    *)

\* Longest server response (number of breach records) that is loaded.
MaxRecords == 3
\* Largest limit passed to breaches(limit).
MaxLimit == 3
\* Later calls across which the caller of breaches() keeps what it returned,
\* when the returned array is what is observed.
MaxHeld == 1
\* Array objects that can be alive at once.
HeapSize == 4

----------------------------------------------------------------------------
(* JavaScript values.                                                      *)

Undefined == [t |-> "undefined"]
NaN == [t |-> "NaN"]
Str(s) == [t |-> "string", v |-> s]
Num(n) == [t |-> "number", v |-> n]
Bool(b) == [t |-> "boolean", v |-> b]
DateOf(ms) == [t |-> "Date", v |-> ms]
Arr(a) == [t |-> "array", v |-> a]

\* a[key]: a property read; an absent property reads as undefined.
Get(obj, key) == IF key \in DOMAIN obj THEN obj[key] ELSE Undefined

\* Truthiness (ToBoolean) of the values the callers pass.
Truthy(x) ==
    CASE x.t = "undefined" -> FALSE
      [] x.t = "NaN" -> FALSE
      [] x.t = "boolean" -> x.v
      [] x.t = "number" -> x.v # 0
      [] x.t = "string" -> x.v # ""
      [] OTHER -> TRUE

\* Array.prototype.includes over the elements of a JavaScript array.
Includes(elems, x) == \E i \in 1..Len(elems) : elems[i] = x

RECURSIVE Flat(_)
\* Array.prototype.flat(): one level of nesting is removed.
Flat(args) ==
    IF args = <<>> THEN <<>>
    ELSE (IF Head(args).t = "array" THEN Head(args).v ELSE <<Head(args)>>)
         \o Flat(Tail(args))

----------------------------------------------------------------------------
(* The schema (static get schema) and validate().                          *)

\* The keys of a breach object; presence is "required" and no other key is
\* allowed.
SchemaKeys ==
    {"Name", "Title", "Domain", "AddedDate", "BreachDate", "ModifiedDate",
     "PwnCount", "Description", "LogoPath", "DataClasses", "IsVerified",
     "IsFabricated", "IsSensitive", "IsRetired", "IsSpamList"}

DateKeys == {"AddedDate", "BreachDate", "ModifiedDate"}
BoolKeys == {"IsVerified", "IsFabricated", "IsSensitive", "IsRetired", "IsSpamList"}
StringKeys == {"Name", "Title", "Description", "LogoPath"}

\* Joi's date type: the ISO strings of the wire it can parse, and the
\* instant (here in days since 1970-01-01) each one denotes.
DateParse ==
    [s \in {"2013-12-04", "2016-05-21", "2017-10-18", "2018-06-01", "2019-07-28"} |->
        CASE s = "2013-12-04" -> 16043
          [] s = "2016-05-21" -> 16942
          [] s = "2017-10-18" -> 17457
          [] s = "2018-06-01" -> 17683
          [] s = "2019-07-28" -> 18105]

\* string.hostname(): the host names among the strings of the model.
Hostnames == {"adobe.com", "linkedin.com", "pokebip.com"}

\* The schema's rule for the value x of key k.
FieldValid(k, x) ==
    CASE k \in StringKeys -> x.t = "string"
      [] k = "Domain" -> x.t = "string" /\ (x.v = "" \/ x.v \in Hostnames)
      [] k \in DateKeys -> x.t = "string" /\ x.v \in DOMAIN DateParse
      [] k = "PwnCount" -> x.t = "number"
      [] k = "DataClasses" ->
            x.t = "array" /\ \A i \in 1..Len(x.v) : x.v[i].t = "string"
      [] k \in BoolKeys -> x.t = "boolean"

\* What validation returns for the value x of key k: dates are cast from
\* their wire form to Date objects, everything else is kept.
FieldCast(k, x) == IF k \in DateKeys THEN DateOf(DateParse[x.v]) ELSE x

RecordValid(r) == DOMAIN r = SchemaKeys /\ \A k \in SchemaKeys : FieldValid(k, r[k])

\* validate(data): rejects unless every item matches the schema, and
\* otherwise resolves to the cast items.
validate(data) ==
    IF \A i \in 1..Len(data) : RecordValid(data[i])
    THEN [threw |-> FALSE,
          val |-> [i \in 1..Len(data) |-> [k \in SchemaKeys |-> FieldCast(k, data[i][k])]]]
    ELSE [threw |-> TRUE, val |-> <<>>]

----------------------------------------------------------------------------
(* What the server can answer.                                             *)

\* One breach object of the wire (res.data[i]).
Wire(nm, dom, added, pwn, classes, verified, sensitive, retired) ==
    [Name |-> Str(nm), Title |-> Str(nm), Domain |-> Str(dom),
     AddedDate |-> Str(added), BreachDate |-> Str("2013-12-04"),
     ModifiedDate |-> Str(added), PwnCount |-> Num(pwn),
     Description |-> Str("..."), LogoPath |-> Str("logo.png"),
     DataClasses |-> Arr(classes), IsVerified |-> Bool(verified),
     IsFabricated |-> Bool(FALSE), IsSensitive |-> Bool(sensitive),
     IsRetired |-> Bool(retired), IsSpamList |-> Bool(FALSE)]

\* The breach list of the server. Two names are the same text in different
\* Unicode normal forms: "Pok<U+00E9>bip" (precomposed) and
\* "Poke<U+0301>bip" (e followed by a combining acute accent).
ServerBreaches ==
    << Wire("MasterDeeds", "", "2017-10-18", 60,
            <<Str("names"), Str("job-titles"), Str("email-addresses")>>,
            TRUE, FALSE, FALSE),
       Wire("Pok<U+00E9>bip", "pokebip.com", "2019-07-28", 65,
            <<Str("email-addresses"), Str("passwords")>>,
            TRUE, FALSE, TRUE),
       Wire("Poke<U+0301>bip", "", "2016-05-21", 12,
            <<Str("names"), Str("job-titles")>>,
            FALSE, TRUE, FALSE),
       Wire("Adobe", "adobe.com", "2013-12-04", 152,
            <<Str("email-addresses"), Str("passwords"), Str("names")>>,
            TRUE, FALSE, FALSE),
       Wire("LinkedIn", "linkedin.com", "2018-06-01", 164,
            <<Str("email-addresses"), Str("job-titles")>>,
            TRUE, FALSE, FALSE) >>

Min(a, b) == IF a < b THEN a ELSE b

\* A breach object the schema rejects: PwnCount is not a number.
Malformed == [ServerBreaches[1] EXCEPT !.PwnCount = Str("many")]

\* The bodies a successful fetch can deliver: the first n breaches of the
\* list, or a list holding a malformed breach.
Responses ==
    { SubSeq(ServerBreaches, 1, n) : n \in 0..Min(MaxRecords, Len(ServerBreaches)) }
    \cup { <<ServerBreaches[1], Malformed>> }

----------------------------------------------------------------------------
(* The heap of arrays and the handle.                                      *)

\* The value of a field that was never assigned (undefined).
NoRef == 0
Refs == 1..HeapSize

Free == [live |-> FALSE, elems |-> <<>>]
Cell(elems) == [live |-> TRUE, elems |-> elems]

\* The handle and heap as one value h: h.heap, h.b (this._breaches),
\* h.o (this._origBreaches), h.ret (the caller's returned value),
\* h.thrown (the error raised, "none" if none). A caller whose returned
\* array is observed keeps it across MaxHeld later calls; any other caller
\* lets go of it before its next call.
Here == [heap |-> heap, b |-> _breaches, o |-> _origBreaches,
         ret |-> IF held < (IF observe = "returned" THEN MaxHeld ELSE 0) THEN ret ELSE NoRef,
         thrown |-> "none"]

\* A reference no live variable holds.
Fresh(h) == CHOOSE a \in Refs :
                /\ a \notin {h.b, h.o, h.ret}
                /\ \A c \in Refs : c \notin {h.b, h.o, h.ret} => a <= c

\* Arrays no variable refers to are reclaimed. References are opaque, so
\* the live arrays are renumbered in the order this._origBreaches,
\* this._breaches, ret: states that differ only in the numbering are one.
Collect(h) ==
    LET live == {h.o, h.b, h.ret} \ {NoRef}
        num(r) == IF r = NoRef THEN NoRef
                  ELSE IF r = h.o THEN 1
                  ELSE IF r = h.b THEN Cardinality({h.o} \ {NoRef}) + 1
                  ELSE Cardinality({h.o, h.b} \ {NoRef}) + 1
    IN  [h EXCEPT !.heap = [a \in Refs |->
                              IF \E r \in live : num(r) = a
                              THEN h.heap[CHOOSE r \in live : num(r) = a]
                              ELSE Free],
                  !.o = num(h.o), !.b = num(h.b), !.ret = num(h.ret)]

\* A new array holding elems; the result is the heap and the reference.
NewArray(h, elems) ==
    LET a == Fresh(h) IN [heap |-> [h.heap EXCEPT ![a] = Cell(elems)], ref |-> a]

\* A call that raises leaves the rest of its body unexecuted.
Throw(h, e) == [h EXCEPT !.thrown = e]

\* The working set: the contents of this._breaches.
Working(h) == h.heap[h.b].elems

----------------------------------------------------------------------------
(* The predicates the chain methods build (the arrow functions `fn`).      *)

BoolPropFn(nm, bool) == [fn |-> "boolProp", name |-> nm, want |-> Bool(Truthy(bool))]
IncludesClassFn(dataClass) == [fn |-> "includesClass", dataClass |-> dataClass]
DomainIsFn(domain) == [fn |-> "domainIs", domain |-> domain]
DomainNotEmptyFn == [fn |-> "domainNotEmpty"]
NameInFn(names) == [fn |-> "nameIn", names |-> names]
\* filter()'s default argument, () => true.
AlwaysFn == [fn |-> "always"]
\* A caller's own predicate: breach => breach.PwnCount > 60.
BigFn == [fn |-> "big"]

\* fn(breach): the value returned (as a truth value), or that it raised.
Call(fn, breach) ==
    CASE fn.fn = "boolProp" ->
            [threw |-> FALSE, val |-> Get(breach, fn.name) = fn.want]
      [] fn.fn = "includesClass" ->
            \* breach.DataClasses.includes(dataClass): a TypeError when
            \* breach.DataClasses is undefined
            IF Get(breach, "DataClasses").t = "array"
            THEN [threw |-> FALSE,
                  val |-> Includes(Get(breach, "DataClasses").v, fn.dataClass)]
            ELSE [threw |-> TRUE, val |-> FALSE]
      [] fn.fn = "domainIs" ->
            [threw |-> FALSE, val |-> Get(breach, "Domain") = fn.domain]
      [] fn.fn = "domainNotEmpty" ->
            [threw |-> FALSE, val |-> Get(breach, "Domain") # Str("")]
      [] fn.fn = "nameIn" ->
            [threw |-> FALSE, val |-> Includes(fn.names, Get(breach, "Name"))]
      [] fn.fn = "always" -> [threw |-> FALSE, val |-> TRUE]
      [] fn.fn = "big" ->
            \* undefined > 60 is false
            [threw |-> FALSE,
             val |-> Get(breach, "PwnCount").t = "number" /\ Get(breach, "PwnCount").v > 60]

\* Array.prototype.filter: fn is called on every element in order; the
\* kept elements keep their order; an error raised by fn propagates.
ArrayFilter(elems, fn) ==
    IF \E i \in 1..Len(elems) : Call(fn, elems[i]).threw
    THEN [threw |-> TRUE, val |-> <<>>]
    ELSE [threw |-> FALSE, val |-> SelectSeq(elems, LAMBDA x : Call(fn, x).val)]

----------------------------------------------------------------------------
(* The chain methods, as functions of the handle.                          *)

\* A spread that copied nothing: the array itself.
SpreadRef_alias(arr, fresh) == arr

\* [...arr]: the reference the spread evaluates to, given a new array
\* `fresh` that was filled with arr's elements.
SpreadRef(arr, fresh) == fresh

\* A load that assigns the body before validating it.
getBreaches_partial(h, fetched) ==
    IF fetched.ok = FALSE THEN Throw(h, "TransportError")
    ELSE LET n1 == NewArray(h, fetched.data)
             h1 == [h EXCEPT !.heap = n1.heap, !.b = n1.ref]
         IN  IF validate(fetched.data).threw THEN Throw(h1, "ValidationError")
             ELSE LET n2 == NewArray(h1, Working(h1))
                  IN  [h1 EXCEPT !.heap = n2.heap, !.o = n2.ref]

\* this._breaches = await axios.get(href).then(res => this.validate(res.data));
\* this._origBreaches = [...this._breaches];
\* fetched is the response body, or "failed" when the request fails.
getBreaches(h, fetched) ==
    IF fetched.ok = FALSE THEN Throw(h, "TransportError")
    ELSE LET v == validate(fetched.data) IN
         IF v.threw THEN Throw(h, "ValidationError")
         ELSE LET n1 == NewArray(h, v.val)
                  h1 == [h EXCEPT !.heap = n1.heap, !.b = n1.ref]
                  n2 == NewArray(h1, Working(h1))
              IN  [h1 EXCEPT !.heap = n2.heap, !.o = SpreadRef(h1.b, n2.ref)]

\* this._breaches = [...this._origBreaches];
reset(h) ==
    IF h.o = NoRef THEN Throw(h, "TypeError")
    ELSE LET n == NewArray(h, h.heap[h.o].elems)
         IN  [h EXCEPT !.heap = n.heap, !.b = SpreadRef(h.o, n.ref)]

\* Number(limit) of a limit that is a number.
SliceEnd(limit) == limit.v

\* breaches with `limit !== undefined` for its test.
breaches_limitDefined(h, limit) ==
    IF limit # Undefined
    THEN IF h.b = NoRef THEN Throw(h, "TypeError")
         ELSE LET n == NewArray([h EXCEPT !.ret = NoRef],
                                SubSeq(Working(h), 1, Min(limit.v, Len(Working(h)))))
              IN  [h EXCEPT !.heap = n.heap, !.ret = n.ref]
    ELSE [h EXCEPT !.ret = h.b]

\* if (limit) return this._breaches.slice(0, Number(limit));
\* return this._breaches;
breaches(h, limit) ==
    IF Truthy(limit)
    THEN IF h.b = NoRef THEN Throw(h, "TypeError")
         ELSE LET n == NewArray([h EXCEPT !.ret = NoRef],
                                SubSeq(Working(h), 1, Min(SliceEnd(limit), Len(Working(h)))))
              IN  [h EXCEPT !.heap = n.heap, !.ret = n.ref]
    ELSE [h EXCEPT !.ret = h.b]

\* The default value of a parameter: used when the argument is undefined.
Default(x, d) == IF x = Undefined THEN d ELSE x

\* filter(fn = () => true) { this._breaches = this._breaches.filter(fn); }
filter(h, fn) ==
    IF h.b = NoRef THEN Throw(h, "TypeError")
    ELSE LET r == ArrayFilter(Working(h), Default(fn, AlwaysFn)) IN
         IF r.threw THEN Throw(h, "TypeError")
         ELSE LET n == NewArray(h, r.val)
              IN  [h EXCEPT !.heap = n.heap, !.b = n.ref]

\* const fn = breach => breach[name] === !!bool; this.filter(fn);
_boolProp(h, nm, bool) == filter(h, BoolPropFn(nm, Default(bool, Bool(TRUE))))

isFabricated(h, bool) == _boolProp(h, "IsFabricated", Default(bool, Bool(TRUE)))
isRetired(h, bool) == _boolProp(h, "IsRetired", Default(bool, Bool(TRUE)))
isSensitive(h, bool) == _boolProp(h, "IsSensitive", Default(bool, Bool(TRUE)))
isSpamList(h, bool) == _boolProp(h, "IsSpamList", Default(bool, Bool(TRUE)))
isVerified(h, bool) == _boolProp(h, "IsVerified", Default(bool, Bool(TRUE)))

RECURSIVE HasDataClassLoop(_, _)
\* for (const dataClass of ...) { this.filter(breach => ...includes(dataClass)) }
HasDataClassLoop(h, dataClasses) ==
    IF dataClasses = <<>> \/ h.thrown # "none" THEN h
    ELSE HasDataClassLoop(filter(h, IncludesClassFn(Head(dataClasses))), Tail(dataClasses))

hasDataClass(h, dataClasses) == HasDataClassLoop(h, Flat(dataClasses))

\* hasDomain with `!domain` for its test.
HasDomainFn_falsy(domain) ==
    IF ~Truthy(domain) THEN DomainNotEmptyFn ELSE DomainIsFn(domain)

\* The predicate hasDomain builds for its argument.
HasDomainFn(domain) ==
    IF domain = Undefined THEN DomainNotEmptyFn ELSE DomainIsFn(domain)

hasDomain(h, domain) == filter(h, HasDomainFn(domain))

name(h, names) == filter(h, NameInFn(Flat(names)))

\* The object pluck builds from one breach: obj[prop] = breach[prop].
PluckOne(breach, props) ==
    [k \in {props[i].v : i \in 1..Len(props)} |-> Get(breach, k)]

\* this._breaches = this._breaches.map(breach => {...});
pluck(h, props) ==
    IF h.b = NoRef THEN Throw(h, "TypeError")
    ELSE LET w == Working(h)
             n == NewArray(h, [i \in 1..Len(w) |-> PluckOne(w[i], Flat(props))])
         IN  [h EXCEPT !.heap = n.heap, !.b = n.ref]

----------------------------------------------------------------------------
(* sort(key = "AddedDate", direction = 1).                                 *)

\* A key string: `dashes` minus signs followed by the text `name`.
Key(dashes, nm) == [t |-> "string", dashes |-> dashes, name |-> nm]

\* static get types(): the column-to-datatype lookup map.
types ==
    [k \in {"AddedDate", "BreachDate", "Domain", "IsFabricated", "IsRetired",
            "IsSensitive", "IsSpamList", "IsVerified", "ModifiedDate", "Name",
            "PwnCount"} |->
        CASE k \in {"AddedDate", "BreachDate", "ModifiedDate"} -> "date"
          [] k \in {"Domain", "Name"} -> "string"
          [] k = "PwnCount" -> "number"
          [] OTHER -> "boolean"]

\* HIBP.types.get(key): undefined for a key the map does not hold.
TypeOf(key) ==
    IF key.dashes = 0 /\ key.name \in DOMAIN types THEN types[key.name] ELSE "undefined"

\* a[key] for a key string.
GetKey(obj, key) == IF key.dashes = 0 THEN Get(obj, key.name) ELSE Undefined

\* String(direction).toLowerCase() for the directions of the model.
LowerString(direction) ==
    CASE direction.t = "string" /\ direction.v \in {"asc", "ASC", "Asc"} -> "asc"
      [] direction.t = "string" /\ direction.v \in {"desc", "DESC", "Desc"} -> "desc"
      [] direction.t = "string" -> direction.v
      [] direction.t = "number" /\ direction.v = 1 -> "1"
      [] direction.t = "number" /\ direction.v = -1 -> "-1"
      [] OTHER -> "?"

\* switch (String(direction).toLowerCase()) { case "asc": ... case "desc": ... }
SwitchDirection(direction) ==
    CASE LowerString(direction) = "asc" -> Num(1)
      [] LowerString(direction) = "desc" -> Num(-1)
      [] OTHER -> direction

\* if (key.startsWith("-")) { key = key.replace(/\-/, ""); direction = -1; }
StripKey(key) == IF key.dashes > 0 THEN [key EXCEPT !.dashes = @ - 1] ELSE key
\* A minus sign that leaves the direction argument in force.
ForceDirection_keep(key, direction) == direction
ForceDirection(key, direction) == IF key.dashes > 0 THEN Num(-1) ELSE direction

\* ToNumber.
ToNumber(x) ==
    CASE x.t = "number" -> x
      [] x.t = "boolean" -> Num(IF x.v THEN 1 ELSE 0)
      [] x.t = "Date" -> Num(x.v)
      [] x.t = "string" /\ x.v = "1" -> Num(1)
      [] x.t = "string" /\ x.v = "-1" -> Num(-1)
      [] x.t = "string" /\ x.v = "" -> Num(0)
      [] OTHER -> NaN

Minus(x, y) ==
    IF ToNumber(x) = NaN \/ ToNumber(y) = NaN THEN NaN
    ELSE Num(ToNumber(x).v - ToNumber(y).v)

Times(x, y) ==
    IF ToNumber(x) = NaN \/ ToNumber(y) = NaN THEN NaN
    ELSE Num(ToNumber(x).v * ToNumber(y).v)

\* String(x).
StringOf(x) == IF x.t = "string" THEN x.v ELSE "undefined"

\* The collation of the strings of the model, least first. Strings that are
\* canonically equivalent collate as equal.
Collation ==
    << {""}, {"Adobe"}, {"adobe.com"}, {"LinkedIn"}, {"linkedin.com"},
       {"MasterDeeds"}, {"Pok<U+00E9>bip", "Poke<U+0301>bip"}, {"pokebip.com"},
       {"undefined"} >>

CollationRank(s) == CHOOSE i \in 1..Len(Collation) : s \in Collation[i]

\* String.prototype.localeCompare: negative, zero or positive.
LocaleCompare(x, y) ==
    CASE CollationRank(x) < CollationRank(y) -> Num(-1)
      [] CollationRank(x) > CollationRank(y) -> Num(1)
      [] OTHER -> Num(0)

\* A comparator whose string case forgets the direction.
Comparator_stringAscending(a, b, key, direction) ==
    IF TypeOf(key) = "string"
    THEN [threw |-> FALSE,
          val |-> LocaleCompare(StringOf(GetKey(a, key)), StringOf(GetKey(b, key)))]
    ELSE IF TypeOf(key) = "date"
    THEN (IF GetKey(a, key).t = "Date" /\ GetKey(b, key).t = "Date"
          THEN [threw |-> FALSE,
                val |-> Times(Minus(GetKey(a, key), GetKey(b, key)), direction)]
          ELSE [threw |-> TRUE, val |-> NaN])
    ELSE IF TypeOf(key) \in {"boolean", "number"}
    THEN [threw |-> FALSE, val |-> Times(Minus(GetKey(a, key), GetKey(b, key)), direction)]
    ELSE [threw |-> FALSE, val |-> Bool(TRUE)]

\* The comparator fn(a, b) of sort, for the stripped key and the direction:
\* its value, or that it raised.
Comparator(a, b, key, direction) ==
    LET aValue == GetKey(a, key)
        bValue == GetKey(b, key)
        sortType == TypeOf(key)
    IN  CASE sortType = "date" ->
                \* aValue.getTime(): a TypeError unless aValue is a Date
                IF aValue.t = "Date" /\ bValue.t = "Date"
                THEN [threw |-> FALSE, val |-> Times(Minus(aValue, bValue), direction)]
                ELSE [threw |-> TRUE, val |-> NaN]
          [] sortType \in {"boolean", "number"} ->
                [threw |-> FALSE, val |-> Times(Minus(aValue, bValue), direction)]
          [] sortType = "string" ->
                [threw |-> FALSE,
                 val |-> Times(LocaleCompare(StringOf(aValue), StringOf(bValue)), direction)]
          [] OTHER -> [threw |-> FALSE, val |-> Bool(TRUE)]

\* How Array.prototype.sort reads a comparator's value v: ToNumber(v), with
\* NaN read as +0; only the sign matters.
Sign(v) ==
    LET n == ToNumber(v) IN
    IF n = NaN THEN 0 ELSE IF n.v < 0 THEN -1 ELSE IF n.v > 0 THEN 1 ELSE 0

Order(a, b, key, direction) == Sign(Comparator(a, b, key, direction).val)

\* x is placed after the elements that do not sort after it.
InsertSorted(sorted, x, key, direction) ==
    LET p == Cardinality({i \in 1..Len(sorted) : Order(sorted[i], x, key, direction) <= 0})
    IN  SubSeq(sorted, 1, p) \o <<x>> \o SubSeq(sorted, p + 1, Len(sorted))

RECURSIVE StableSort(_, _, _)
\* The stable sort of elems under a consistent comparator.
StableSort(elems, key, direction) ==
    IF elems = <<>> THEN <<>>
    ELSE InsertSorted(StableSort(SubSeq(elems, 1, Len(elems) - 1), key, direction),
                      elems[Len(elems)], key, direction)

Reorderings(elems) ==
    LET n == Len(elems) IN
    { [i \in 1..n |-> elems[p[i]]] :
        p \in {q \in [1..n -> 1..n] : \A i, j \in 1..n : q[i] = q[j] => i = j} }

\* Array.prototype.sort(fn) on elems: whether fn raises, and the orders the
\* array can be left in. With fewer than two elements fn is not called.
\* The comparator of a key whose type is unknown answers `true` for every
\* pair, which is no ordering: the order sort leaves is then
\* implementation-defined. Every other comparator orders by a number or by
\* collation, and the stable sort is the one result.
ArraySort(elems, key, direction) ==
    IF Len(elems) < 2 THEN [threw |-> FALSE, vals |-> {elems}]
    ELSE IF \E i, j \in 1..Len(elems) : Comparator(elems[i], elems[j], key, direction).threw
    THEN [threw |-> TRUE, vals |-> {elems}]
    ELSE IF TypeOf(key) = "undefined"
    THEN [threw |-> FALSE, vals |-> Reorderings(elems)]
    ELSE [threw |-> FALSE, vals |-> {StableSort(elems, key, direction)}]

\* this._breaches = this._breaches.sort(fn): the array is sorted in place
\* and the same reference is assigned back. The result is the set of
\* handles the call can leave.
sort(h, key, direction) ==
    LET k0 == Default(key, Key(0, "AddedDate"))
        d0 == SwitchDirection(Default(direction, Num(1)))
        k == StripKey(k0)
        d == ForceDirection(k0, d0)
    IN  IF h.b = NoRef THEN {Throw(h, "TypeError")}
        ELSE LET r == ArraySort(Working(h), k, d) IN
             IF r.threw THEN {Throw(h, "TypeError")}
             ELSE {[h EXCEPT !.heap[h.b] = Cell(v)] : v \in r.vals}

----------------------------------------------------------------------------
(* The arguments the callers pass.                                         *)

Fetches ==
    {[ok |-> FALSE, data |-> <<>>]} \cup {[ok |-> TRUE, data |-> r] : r \in Responses}

Limits == {Undefined} \cup {Num(n) : n \in 0..MaxLimit}

BoolArgs == {Undefined, Bool(TRUE), Bool(FALSE)}

FilterArgs == {Undefined, BigFn}

DataClassArgs ==
    { <<Str("names")>>,
      <<Str("names"), Str("job-titles")>>,
      <<Str("job-titles"), Str("names")>>,
      <<Arr(<<Str("email-addresses"), Str("passwords")>>)>> }

DomainArgs == {Undefined, Str(""), Str("pokebip.com")}

NameArgs ==
    { <<Str("MasterDeeds"), Str("Estonia"), Str("Adobe")>>,
      <<Arr(<<Str("Pok<U+00E9>bip"), Str("Poke<U+0301>bip")>>)>>,
      <<Str("LinkedIn"), Str("MasterDeeds")>> }

PluckArgs ==
    { <<Str("Name"), Str("PwnCount")>>,
      <<Arr(<<Str("Name"), Str("AddedDate"), Str("PwnCount"), Str("Domain")>>)>>,
      <<Arr(<<Str("Name")>>)>> }

\* sort(key, direction) argument pairs; an omitted argument is undefined.
SortArgs ==
    { <<Undefined, Undefined>>,
      <<Key(0, "PwnCount"), Undefined>>,
      <<Key(0, "PwnCount"), Str("DESC")>>,
      <<Key(1, "PwnCount"), Undefined>>,
      <<Key(1, "PwnCount"), Str("asc")>>,
      <<Key(0, "Name"), Undefined>>,
      <<Key(1, "Name"), Str("asc")>>,
      <<Key(0, "Domain"), Num(-1)>>,
      <<Key(1, "IsVerified"), Num(1)>>,
      <<Key(1, "AddedDate"), Str("desc")>>,
      <<Key(0, "Title"), Undefined>> }

----------------------------------------------------------------------------
(* The observers. Each specification keeps the bookkeeping of one of them. *)

FilterOps ==
    {"filter", "isFabricated", "isRetired", "isSensitive", "isSpamList",
     "isVerified", "hasDataClass", "hasDomain", "name"}

\* The calls an observer tells apart, and those whose arguments it records.
Named ==
    CASE observe = "handle" -> {"getBreaches", "reset", "breaches", "hasDomain", "sort"}
      [] observe = "returned" -> {"breaches"}
      [] observe = "filters" -> FilterOps

\* Whether the observer records the arguments of the call. Of a sort call
\* they are recorded when its key starts with a minus sign. Of getBreaches
\* the observer records whether the fetch succeeded and whether its body was
\* valid; of reset, whether the working set differed from what was loaded.
Recorded(op, args) ==
    CASE observe = "handle" ->
            op \in {"getBreaches", "reset", "breaches", "hasDomain"}
            \/ (op = "sort" /\ args[1] # Undefined /\ args[1].dashes > 0)
      [] observe = "returned" -> op = "breaches"
      [] observe = "filters" -> FALSE

\* The working set now (empty while nothing is loaded).
Now == IF _breaches = NoRef THEN <<>> ELSE heap[_breaches].elems

\* Whether the breach b passes the filter call op(args), by the documented
\* meaning of the call: what the observer expects the call to keep.
Passes(op, args, b) ==
    CASE op = "filter" ->
            args[1] = Undefined \/ (Get(b, "PwnCount").t = "number" /\ Get(b, "PwnCount").v > 60)
      [] op = "isFabricated" -> Get(b, "IsFabricated") = Bool(args[1] # Bool(FALSE))
      [] op = "isRetired" -> Get(b, "IsRetired") = Bool(args[1] # Bool(FALSE))
      [] op = "isSensitive" -> Get(b, "IsSensitive") = Bool(args[1] # Bool(FALSE))
      [] op = "isSpamList" -> Get(b, "IsSpamList") = Bool(args[1] # Bool(FALSE))
      [] op = "isVerified" -> Get(b, "IsVerified") = Bool(args[1] # Bool(FALSE))
      [] op = "hasDataClass" ->
            \A i \in 1..Len(Flat(args)) :
                /\ Get(b, "DataClasses").t = "array"
                /\ Includes(Get(b, "DataClasses").v, Flat(args)[i])
      [] op = "hasDomain" ->
            IF args[1] = Undefined THEN Get(b, "Domain") # Str("")
            ELSE Get(b, "Domain") = args[1]
      [] op = "name" -> Includes(Flat(args), Get(b, "Name"))

\* The step of the handle to h2 by the call op(args), with the observers'
\* bookkeeping.
Step(op, args, h2) ==
    \E h3 \in {Collect(h2)} :
        /\ heap' = h3.heap
        /\ _breaches' = h3.b
        /\ _origBreaches' = h3.o
        /\ ret' = h3.ret
        /\ held' = IF op = "breaches" \/ h3.ret = NoRef THEN 0 ELSE held + 1
        /\ thrown' = h3.thrown
        /\ last' = [op |-> IF op \in Named THEN op ELSE "call",
                    args |-> IF Recorded(op, args) THEN args ELSE <<>>]
        /\ loaded' = IF op = "getBreaches" /\ h3.thrown = "none"
                     THEN Working(h3) ELSE loaded
        /\ retSnap' = IF h3.ret = NoRef THEN <<>>
                      ELSE IF op = "breaches" /\ h3.thrown = "none"
                      THEN h3.heap[h3.ret].elems ELSE retSnap
        /\ base' = IF observe = "filters" /\ op \in FilterOps
                   THEN (IF last.op \in FilterOps THEN base ELSE Now) ELSE <<>>
        /\ kept' = IF observe = "filters" /\ op \in FilterOps
                   THEN {i \in (IF last.op \in FilterOps THEN kept ELSE 1..Len(Now)) :
                            Passes(op, args, (IF last.op \in FilterOps THEN base ELSE Now)[i])}
                   ELSE {}
        /\ UNCHANGED observe

----------------------------------------------------------------------------
(* The calls.                                                              *)

GetBreaches ==
    \E f \in Fetches :
        \E h2 \in {getBreaches(Here, f)} :
            Step("getBreaches", <<Bool(f.ok), Bool(f.ok /\ ~validate(f.data).threw)>>, h2)

Reset == \E h2 \in {reset(Here)} : Step("reset", <<Bool(Now # loaded)>>, h2)

Breaches ==
    \E limit \in Limits :
        \E h2 \in {breaches(Here, limit)} : Step("breaches", <<limit>>, h2)

Filter ==
    \E fn \in FilterArgs :
        \E h2 \in {filter(Here, fn)} : Step("filter", <<fn>>, h2)

IsFabricated ==
    \E bool \in BoolArgs :
        \E h2 \in {isFabricated(Here, bool)} : Step("isFabricated", <<bool>>, h2)

IsRetired ==
    \E bool \in BoolArgs :
        \E h2 \in {isRetired(Here, bool)} : Step("isRetired", <<bool>>, h2)

IsSensitive ==
    \E bool \in BoolArgs :
        \E h2 \in {isSensitive(Here, bool)} : Step("isSensitive", <<bool>>, h2)

IsSpamList ==
    \E bool \in BoolArgs :
        \E h2 \in {isSpamList(Here, bool)} : Step("isSpamList", <<bool>>, h2)

IsVerified ==
    \E bool \in BoolArgs :
        \E h2 \in {isVerified(Here, bool)} : Step("isVerified", <<bool>>, h2)

HasDataClass ==
    \E cs \in DataClassArgs :
        \E h2 \in {hasDataClass(Here, cs)} : Step("hasDataClass", cs, h2)

HasDomain ==
    \E d \in DomainArgs :
        \E h2 \in {hasDomain(Here, d)} : Step("hasDomain", <<d>>, h2)

Name ==
    \E ns \in NameArgs :
        \E h2 \in {name(Here, ns)} : Step("name", ns, h2)

Pluck ==
    \E props \in PluckArgs :
        \E h2 \in {pluck(Here, props)} : Step("pluck", props, h2)

Sort ==
    \E a \in SortArgs :
        \E h2 \in sort(Here, a[1], a[2]) : Step("sort", a, h2)

InitHandle(observer) ==
    /\ heap = [a \in Refs |-> Free]
    /\ _breaches = NoRef
    /\ _origBreaches = NoRef
    /\ thrown = "none"
    /\ ret = NoRef
    /\ held = 0
    /\ observe = observer
    /\ loaded = <<>>
    /\ retSnap = <<>>
    /\ last = [op |-> "new", args |-> <<>>]
    /\ base = <<>>
    /\ kept = {}

Init == InitHandle("handle")

Next ==
    \/ GetBreaches
    \/ Reset
    \/ Breaches
    \/ Filter
    \/ IsFabricated
    \/ IsRetired
    \/ IsSensitive
    \/ IsSpamList
    \/ IsVerified
    \/ HasDataClass
    \/ HasDomain
    \/ Name
    \/ Pluck
    \/ Sort

\* The handle alone: what is loaded, and the last call.
Spec == Init /\ [][Next]_vars

\* The handle and the array its caller got from breaches().
SpecReturned == InitHandle("returned") /\ [][Next]_vars

\* The handle and the run of filter calls in progress.
SpecFilters == InitHandle("filters") /\ [][Next]_vars

----------------------------------------------------------------------------
(* Properties.                                                             *)

Loaded == _breaches # NoRef

Reverse(q) == [i \in 1..Len(q) |-> q[Len(q) + 1 - i]]

\* The working set sort(key) leaves, for a key whose type is known.
SortedBy(key) ==
    (CHOOSE h \in sort(Here, key, Undefined) : TRUE).heap[_breaches].elems

\* C1: after a successful load, whatever filter, sort and pluck calls were
\* made, the array captured at load time still holds exactly the loaded
\* sequence, and right after a reset() the working set is that sequence.
C1_OriginalKeptAndResetRestores ==
    /\ _origBreaches # NoRef => heap[_origBreaches].elems = loaded
    /\ (last.op = "reset" /\ thrown = "none") => Now = loaded

\* A reset that found the working set different from what was loaded and
\* restored a loaded sequence of three breaches.
C1_Witness ==
    /\ last.op = "reset"
    /\ last.args = <<Bool(TRUE)>>
    /\ thrown = "none"
    /\ Len(loaded) >= 3
    /\ Now = loaded

\* C2 (as claimed): the array breaches() returned keeps the contents and
\* order it had when it was returned, whatever chain call follows.
C2_ReturnedIsDetached == ret # NoRef => heap[ret].elems = retSnap

\* C3 (as claimed): once a load has succeeded, no chain call raises.
C3_ChainCallsNeverRaise == Loaded => thrown # "TypeError"

\* The elements of q at the positions in idx, in their order in q.
Restrict(q, idx) ==
    [i \in 1..Cardinality(idx) |->
        q[CHOOSE k \in idx : Cardinality({j \in idx : j <= k}) = i]]

\* C4 (as claimed): after every run of filter calls on a working set W the
\* working set is exactly the breaches of W that pass every call of the
\* run (for hasDataClass: that hold every class given), in W's order.
C4_FilterRunKeepsExactlyPassing ==
    (Loaded /\ last.op \in FilterOps) =>
        /\ Now = Restrict(base, kept)
        /\ Len(Now) <= Len(base)

\* C5: on any working set hasDomain("") keeps exactly the breaches whose
\* Domain is the empty string, hasDomain() exactly those whose Domain is not
\* the empty string, and no breach is in both results.
C5_EmptyAndOmittedDomainDisjoint ==
    Loaded =>
        LET empty == Working(hasDomain(Here, Str("")))
            omitted == Working(hasDomain(Here, Undefined))
        IN  /\ empty = SelectSeq(Now, LAMBDA b : Get(b, "Domain") = Str(""))
            /\ omitted = SelectSeq(Now, LAMBDA b : Get(b, "Domain") # Str(""))
            /\ \A i \in 1..Len(empty), j \in 1..Len(omitted) : empty[i] # omitted[j]
            /\ (last.op = "hasDomain" /\ last.args = <<Str("")>>)
                  => \A i \in 1..Len(Now) : Now[i].Domain = Str("")
            /\ (last.op = "hasDomain" /\ last.args = <<Undefined>>)
                  => \A i \in 1..Len(Now) : Get(Now[i], "Domain") # Str("")

\* hasDomain("") has acted on a loaded set of three and kept some, not all.
C5_Witness ==
    /\ last.op = "hasDomain"
    /\ last.args = <<Str("")>>
    /\ Len(loaded) >= 3
    /\ Len(Now) >= 2
    /\ Len(Now) < Len(loaded)

\* C6 (as claimed): for every key of the type table and every working set
\* whose breaches have pairwise distinct values for the key, the order
\* sort(key) leaves is the reverse of the order sort("-" + key) leaves.
C6_DistinctValuesReverse ==
    Loaded =>
        \A k \in DOMAIN types :
            (\A i, j \in 1..Len(Now) : i # j => Get(Now[i], k) # Get(Now[j], k))
            => SortedBy(Key(0, k)) = Reverse(SortedBy(Key(1, k)))

\* C6 (amended): the same, for every working set in which no two breaches
\* compare as equal under the key's comparison rule.
C6_StrictlyOrderedReverse ==
    Loaded =>
        \A k \in DOMAIN types :
            (\A i, j \in 1..Len(Now) :
                i # j => Order(Now[i], Now[j], Key(0, k), Num(1)) # 0)
            => SortedBy(Key(0, k)) = Reverse(SortedBy(Key(1, k)))

\* sort("-PwnCount") has acted on three breaches with different counts, and
\* sort("PwnCount") would change their order.
C6_Witness ==
    /\ last.op = "sort"
    /\ last.args = <<Key(1, "PwnCount"), Undefined>>
    /\ thrown = "none"
    /\ Len(Now) >= 3
    /\ \A i, j \in 1..Len(Now) : i # j => Get(Now[i], "PwnCount") # Get(Now[j], "PwnCount")
    /\ SortedBy(Key(0, "PwnCount")) # Now

\* The directions C7 names.
C7_Directions == {Num(1), Str("asc"), Num(-1), Str("desc")}

\* C7: a key that begins with a minus sign is sorted without the minus and
\* descending whatever the direction argument: sort("-K", d) leaves what
\* sort("K", -1) leaves, and after sort("-K", d) on a key of known type no
\* breach sorts before an earlier one in ascending order.
C7_MinusForcesDescending ==
    Loaded =>
        /\ \A k \in DOMAIN types \cup {"Title"}, d \in C7_Directions :
              sort(Here, Key(1, k), d) = sort(Here, Key(0, k), Num(-1))
        /\ (last.op = "sort" /\ last.args # <<>> /\ thrown = "none"
              /\ TypeOf(StripKey(last.args[1])) # "undefined")
              => \A i, j \in 1..Len(Now) :
                    i < j => Order(Now[i], Now[j], StripKey(last.args[1]), Num(1)) >= 0

\* sort("-Name", "asc") has acted and left names in descending order.
C7_Witness ==
    /\ last.op = "sort"
    /\ last.args = <<Key(1, "Name"), Str("asc")>>
    /\ thrown = "none"
    /\ Len(Now) >= 2
    /\ Order(Now[1], Now[Len(Now)], Key(0, "Name"), Num(1)) > 0

\* C8: breaches(0) and breaches() return the whole working set in order,
\* breaches(n) for n > 0 its first min(n, length) breaches, and the working
\* set is as it was.
C8_BreachesLimit ==
    [][(last'.op = "breaches" /\ Loaded) =>
          /\ thrown' = "none"
          /\ _breaches' # NoRef /\ heap'[_breaches'].elems = Now
          /\ ret' # NoRef
          /\ heap'[ret'].elems =
                IF last'.args[1] \in {Undefined, Num(0)} THEN Now
                ELSE SubSeq(Now, 1, Min(last'.args[1].v, Len(Now)))]_vars

\* breaches(0) has returned a working set of at least two breaches, whole.
C8_Witness ==
    /\ last.op = "breaches"
    /\ last.args = <<Num(0)>>
    /\ ret # NoRef
    /\ Len(heap[ret].elems) >= 2

\* C9: a getBreaches whose fetch fails raises the transport error, one
\* whose body is invalid raises the validation error, and either leaves
\* this._breaches and this._origBreaches, and the arrays they refer to, as
\* they were (unset on a fresh handle).
C9_FailedLoadStoresNothing ==
    [][(last'.op = "getBreaches" /\ last'.args # <<Bool(TRUE), Bool(TRUE)>>) =>
          /\ thrown' = IF last'.args[1] = Bool(FALSE) THEN "TransportError"
                       ELSE "ValidationError"
          /\ _breaches' = _breaches
          /\ _origBreaches' = _origBreaches
          /\ _breaches # NoRef => heap'[_breaches'] = heap[_breaches]
          /\ _origBreaches # NoRef => heap'[_origBreaches'] = heap[_origBreaches]]_vars

\* A load was rejected by validation on a handle that had loaded three
\* breaches before and had since changed its working set.
C9_Witness ==
    /\ last.op = "getBreaches"
    /\ thrown = "ValidationError"
    /\ Loaded
    /\ Len(loaded) >= 3
    /\ Now # loaded
    /\ heap[_origBreaches].elems = loaded

\* The filter calls of the model.
FilterCalls ==
    {[op |-> "filter", args |-> <<fn>>] : fn \in FilterArgs}
    \cup {[op |-> o, args |-> <<b>>] :
            o \in {"isFabricated", "isRetired", "isSensitive", "isSpamList", "isVerified"},
            b \in BoolArgs}
    \cup {[op |-> "hasDataClass", args |-> cs] : cs \in DataClassArgs}
    \cup {[op |-> "hasDomain", args |-> <<d>>] : d \in DomainArgs}
    \cup {[op |-> "name", args |-> ns] : ns \in NameArgs}

\* The handle after the call c, which is not made once a call has raised.
Run(h, c) ==
    IF h.thrown # "none" THEN h
    ELSE CASE c.op = "filter" -> filter(h, c.args[1])
           [] c.op = "isFabricated" -> isFabricated(h, c.args[1])
           [] c.op = "isRetired" -> isRetired(h, c.args[1])
           [] c.op = "isSensitive" -> isSensitive(h, c.args[1])
           [] c.op = "isSpamList" -> isSpamList(h, c.args[1])
           [] c.op = "isVerified" -> isVerified(h, c.args[1])
           [] c.op = "hasDataClass" -> hasDataClass(h, c.args)
           [] c.op = "hasDomain" -> hasDomain(h, c.args[1])
           [] c.op = "name" -> name(h, c.args)

\* C10 (as claimed): any two filter calls made in either order leave the
\* same working set, in the same order.
C10_FiltersCommute ==
    Loaded =>
        \A f, g \in FilterCalls :
            LET fg == Run(Run(Here, f), g)
                gf == Run(Run(Here, g), f)
            IN  fg.thrown = gf.thrown /\ Working(fg) = Working(gf)

\* Every breach of the working set still carries its DataClasses.
CarriesDataClasses ==
    \A i \in 1..Len(Now) : Get(Now[i], "DataClasses").t = "array"

\* Where no filter predicate can raise, C4's statement holds: a run of
\* filter calls that began on a working set carrying DataClasses leaves
\* exactly the breaches that pass every call.
C4_HoldsWhereDataClassesKept ==
    (Loaded /\ last.op \in FilterOps
       /\ \A i \in 1..Len(base) : Get(base[i], "DataClasses").t = "array") =>
        /\ Now = Restrict(base, kept)
        /\ Len(Now) <= Len(base)

\* Where no filter predicate can raise, C10's statement holds.
C10_HoldsWhereDataClassesKept ==
    (Loaded /\ CarriesDataClasses) =>
        \A f, g \in FilterCalls :
            LET fg == Run(Run(Here, f), g)
                gf == Run(Run(Here, g), f)
            IN  fg.thrown = "none" /\ gf.thrown = "none" /\ Working(fg) = Working(gf)

====
